---- MODULE Spec2Model ----
(***************************************************************************)
(* Model of elm/ords/download.py: the county ordinance download pipeline.  *)
(*                                                                         *)
(*   download_county_ordinance                                             *)
(*     _find_urls            one search task per QUESTION_TEMPLATES entry  *)
(*     _down_select_urls     round-robin, de-duplicated, capped URL set    *)
(*     _load_docs            AsyncFileLoader.fetch_all on the URL set      *)
(*     _down_select_docs_correct_location   one CountyValidator.check per  *)
(*                           document, gathered, filtered, sorted          *)
(*     _check_docs_for_ords  sequential check_for_ordinance_info           *)
(*     _parse_all_ord_docs   sorted(..., key=_ord_doc_sorting_key)[-1]     *)
(*                                                                         *)
(* and of elm/pdf.py: PDFtoTXT.clean_headers and PDFtoTXT.clean_txt.       *)
(*                                                                         *)
(* Five specifications share the variables:                                *)
(*   Spec         one run of download_county_ordinance                     *)
(*   SpecSelect   _down_select_urls applied to bounded inputs              *)
(*   SpecParse    _parse_all_ord_docs applied to bounded inputs            *)
(*   SpecHeaders  PDFtoTXT.clean_headers applied to bounded inputs         *)
(*   SpecClean    PDFtoTXT.clean_txt applied to bounded inputs             *)
(***************************************************************************)
EXTENDS Integers, Sequences, FiniteSets, TLC

VARIABLES
    pc,              \* position of download_county_ordinance
    num_urls,        \* parameter num_urls
    searchers,       \* _find_urls: the tasks of line 36, one per template
    search_results,  \* value of `await _find_urls(...)`, line 146
    urls,            \* value of _down_select_urls(...), line 149
    docs,            \* local `docs`, lines 150, 151, 158
    checks,          \* _down_select_docs_correct_location: tasks of line 76
    ord_docs,        \* _check_docs_for_ords: local `ord_docs`, line 93
    next_doc,        \* _check_docs_for_ords: position of the loop of line 94
    inflight,        \* URLs of documents inside a check_for_ordinance_info call
    logged,          \* arguments of the logger.info call of line 159
    result,          \* value returned by download_county_ordinance
    error,           \* exception that left download_county_ordinance
    loaded,          \* history: what fetch_all returned, by URL
    answers,         \* history: collaborator answers by URL, completion orders
    calls,           \* history: functions called by the run, in order
    pages,           \* PDFtoTXT: self.pages, one string per page
    full,            \* PDFtoTXT: self.full
    raw_pages,       \* PDFtoTXT: self.raw_pages
    clean_pages,     \* clean_txt: local `clean_pages`, line 123
    posted,          \* history: the requests clean_txt has posted, in order
    loaded_pages     \* history: the pages as load_pdf returned them

\* the variables of a PDFtoTXT object
pdf_vars == <<pages, full, raw_pages, clean_pages, posted, loaded_pages>>

vars == <<pc, num_urls, searchers, search_results, urls, docs, checks,
          ord_docs, next_doc, inflight, logged, result, error, loaded, answers,
          calls, pdf_vars>>

-----------------------------------------------------------------------------
(* Bounds of the model *)

MaxLists == 2       \* SpecSelect: number of per-template lists
MaxRank == 2        \* longest ranked list of one search
MaxCap == 2         \* largest num_urls
MaxDocs == 2        \* SpecParse: longest list of documents
MaxTextLen == 2     \* longest document text
MaxPages == 3       \* SpecHeaders: most pages of a PDF

(* Program constants *)

NumTemplates == 4   \* len(QUESTION_TEMPLATES)

(* Value domains *)

UrlNames == <<"a", "b", "c", "d", "e", "f">>
EmptyStr == ""
Years == {2019, 2020}
Months == {1, 2}
Days == {1, 2}
Dates == Years \X Months \X Days

\* None as a component of a tuple of integers: an integer that is no year,
\* month, day or text length of the model
NoneComponent == -9999

\* dates of which the date extraction found only a part
PartialDates ==
    {<<2020, NoneComponent, NoneComponent>>, <<2020, 1, NoneComponent>>,
     <<NoneComponent, NoneComponent, NoneComponent>>}

\* the ranked lists the search backend may answer a query with, and the
\* dates check_for_ordinance_info may find, in the runs of the pipeline
SearchAnswers == {<<>>, <<"a", "b">>, <<"", "b", "c">>}
PipeDates == {<<2019, 1, 1>>, <<2020, 1, 1>>, <<2020, NoneComponent, NoneComponent>>}

-----------------------------------------------------------------------------
(* Python values *)

\* the value None as a function result
None == [py |-> "None"]

\* an exception instance: its type and its traceback, the functions of
\* download.py it has left so far, innermost first
Exception(kind) == [py |-> "exception", kind |-> kind, traceback |-> <<>>]

\* the exception after it has left these functions; nothing in download.py
\* catches an exception, wraps it or adds anything else to it
Propagated(e, frames) == [e EXCEPT !.traceback = @ \o frames]

\* the exceptions a call of a collaborator (search_engine.results,
\* county_validator.check, check_for_ordinance_info) may raise
CollaboratorErrors == {Exception("TimeoutError"), Exception("RuntimeError")}

IsException(v) ==
    v \in CollaboratorErrors \cup {Exception("IndexError"), Exception("TypeError")}

\* zip_longest pads exhausted iterables with fillvalue=None
fillvalue == "None"

\* an empty dict
EmptyDict == [k \in {} |-> TRUE]

\* dict.get(key, default)
get(dict, key, default) == IF key \in DOMAIN dict THEN dict[key] ELSE default

\* bool is a subclass of int: False == 0, True == 1 when compared
PyInt(b) == IF b THEN 1 ELSE 0

\* tuple comparison a < b on tuples of equal length whose first differing
\* components are integers
RECURSIVE TupleLessFrom(_, _, _)
TupleLessFrom(a, b, i) ==
    IF i > Len(a) THEN FALSE
    ELSE IF a[i] < b[i] THEN TRUE
    ELSE IF a[i] > b[i] THEN FALSE
    ELSE TupleLessFrom(a, b, i + 1)

TupleLess(a, b) == TupleLessFrom(a, b, 1)

\* tuple comparison a < b raises TypeError: equal components are skipped,
\* and `<` of the first components that differ is not supported between
\* None and an int
RECURSIVE TupleLessRaisesFrom(_, _, _)
TupleLessRaisesFrom(a, b, i) ==
    IF i > Len(a) THEN FALSE
    ELSE IF a[i] = b[i] THEN TupleLessRaisesFrom(a, b, i + 1)
    ELSE a[i] = NoneComponent \/ b[i] = NoneComponent

TupleLessRaises(a, b) == TupleLessRaisesFrom(a, b, 1)

\* list.sort on a list shorter than 64, pairs of (key, item): the length of
\* the run the list starts with, from position i on; the run is strictly
\* descending or else non-descending
RECURSIVE count_run(_, _, _)
count_run(pairs, i, descending) ==
    IF i > Len(pairs) THEN [n |-> Len(pairs), raised |-> FALSE]
    ELSE IF TupleLessRaises(pairs[i][1], pairs[i - 1][1]) THEN [n |-> 0, raised |-> TRUE]
    ELSE IF TupleLess(pairs[i][1], pairs[i - 1][1]) = descending
         THEN count_run(pairs, i + 1, descending)
         ELSE [n |-> i - 1, raised |-> FALSE]

\* the binary search of binarysort: where the pivot goes among the first
\* r elements, to the right of every element that is not greater
RECURSIVE bisect(_, _, _, _)
bisect(pairs, pivot, l, r) ==
    IF l >= r THEN [at |-> l, raised |-> FALSE]
    ELSE LET p == l + ((r - l) \div 2)
         IN  IF TupleLessRaises(pivot[1], pairs[p + 1][1]) THEN [at |-> 0, raised |-> TRUE]
             ELSE IF TupleLess(pivot[1], pairs[p + 1][1]) THEN bisect(pairs, pivot, l, p)
             ELSE bisect(pairs, pivot, p + 1, r)

\* binary insertion of the elements after the first `start`, which are sorted
RECURSIVE binarysort(_, _)
binarysort(pairs, start) ==
    IF start >= Len(pairs) THEN [pairs |-> pairs, raised |-> FALSE]
    ELSE LET pivot == pairs[start + 1]
             pos == bisect(pairs, pivot, 0, start)
         IN  IF pos.raised THEN [pairs |-> pairs, raised |-> TRUE]
             ELSE binarysort(SubSeq(pairs, 1, pos.at) \o <<pivot>>
                                 \o SubSeq(pairs, pos.at + 1, start)
                                 \o SubSeq(pairs, start + 2, Len(pairs)),
                             start + 1)

Reversed(seq) == [i \in 1..Len(seq) |-> seq[Len(seq) + 1 - i]]

\* a sort that takes a run of equal keys for a descending run and reverses it
list_sort_TiesReversed(pairs) ==
    IF Len(pairs) < 2 THEN [pairs |-> pairs, raised |-> FALSE]
    ELSE IF TupleLessRaises(pairs[2][1], pairs[1][1]) THEN [pairs |-> pairs, raised |-> TRUE]
    ELSE LET descending == ~TupleLess(pairs[1][1], pairs[2][1])
             run == count_run(pairs, 3, descending)
         IN  IF run.raised THEN [pairs |-> pairs, raised |-> TRUE]
             ELSE IF descending
                  THEN binarysort(Reversed(SubSeq(pairs, 1, run.n))
                                      \o SubSeq(pairs, run.n + 1, Len(pairs)), run.n)
                  ELSE binarysort(pairs, run.n)

\* list.sort: the first run, reversed when descending, then binarysort
list_sort(pairs) ==
    IF Len(pairs) < 2 THEN [pairs |-> pairs, raised |-> FALSE]
    ELSE IF TupleLessRaises(pairs[2][1], pairs[1][1]) THEN [pairs |-> pairs, raised |-> TRUE]
    ELSE LET descending == TupleLess(pairs[2][1], pairs[1][1])
             run == count_run(pairs, 3, descending)
         IN  IF run.raised THEN [pairs |-> pairs, raised |-> TRUE]
             ELSE IF descending
                  THEN binarysort(Reversed(SubSeq(pairs, 1, run.n))
                                      \o SubSeq(pairs, run.n + 1, Len(pairs)), run.n)
                  ELSE binarysort(pairs, run.n)

\* sorted(list, key=...) raises TypeError; keys[i] is key(list[i])
sorted_raises(keys) == list_sort([i \in 1..Len(keys) |-> <<keys[i], i>>]).raised

\* sorted(list, key=...) when it does not raise: ascending and stable
sorted(list, keys) ==
    LET out == list_sort([i \in 1..Len(list) |-> <<keys[i], list[i]>>]).pairs
    IN  [i \in 1..Len(list) |-> out[i][2]]

-----------------------------------------------------------------------------
(* _down_select_urls, lines 46-58 *)

Max(S) == IF S = {} THEN 0 ELSE CHOOSE m \in S : \A x \in S : x <= m

\* `not url`, line 53
Falsy_OnlyNone(url) == url = fillvalue

Falsy(url) == url = fillvalue \/ url = EmptyStr

\* chain.from_iterable of zip_longest of the lists, lines 48-50: the ranks in
\* order, within a rank the lists in order, exhausted lists padded
all_urls(lists) ==
    LET n == Len(lists)
        longest == Max({Len(lists[t]) : t \in 1..n})
    IN  [k \in 1..(n * longest) |->
            LET r == ((k - 1) \div n) + 1
                t == ((k - 1) % n) + 1
            IN  IF r <= Len(lists[t]) THEN lists[t][r] ELSE fillvalue]

\* the loop of lines 51-58 from position i on, with the set built so far
RECURSIVE SelectLoop(_, _, _, _)
SelectLoop(all, i, acc, cap) ==
    IF i > Len(all) THEN acc
    ELSE IF Falsy(all[i]) THEN SelectLoop(all, i + 1, acc, cap)
    ELSE LET added == acc \cup {all[i]}
         IN  IF Cardinality(added) = cap THEN added
             ELSE SelectLoop(all, i + 1, added, cap)

_down_select_urls(results, cap) ==
    SelectLoop(all_urls([t \in 1..Len(results) |-> results[t][1]]), 1, {}, cap)

-----------------------------------------------------------------------------
(* _parse_all_ord_docs and _ord_doc_sorting_key, lines 101-112 *)

isPDFDocument(doc) == doc.pdf

_ord_doc_sorting_key_LongerFirst(doc) ==
    LET date == get(doc.metadata, "date", <<-1, -1, -1>>)
    IN  <<date[1], PyInt(isPDFDocument(doc)), doc.len, date[2], date[3]>>

_ord_doc_sorting_key(doc) ==
    LET date == get(doc.metadata, "date", <<-1, -1, -1>>)
    IN  <<date[1], PyInt(isPDFDocument(doc)), -1 * doc.len, date[2], date[3]>>

\* sorted(all_ord_docs, key=_ord_doc_sorting_key)[-1], line 106
best_match(all_ord_docs) ==
    LET keys == [i \in 1..Len(all_ord_docs) |-> _ord_doc_sorting_key(all_ord_docs[i])]
    IN  IF sorted_raises(keys) THEN Exception("TypeError")
        ELSE sorted(all_ord_docs, keys)[Len(all_ord_docs)]

\* without the guard of line 103: [-1] of an empty list raises IndexError
_parse_all_ord_docs_NoGuard(all_ord_docs) ==
    IF Len(all_ord_docs) = 0 THEN Exception("IndexError")
    ELSE best_match(all_ord_docs)

_parse_all_ord_docs(all_ord_docs) ==
    IF Len(all_ord_docs) = 0 THEN None
    ELSE best_match(all_ord_docs)

-----------------------------------------------------------------------------
(* Documents *)

\* a document as the loader returns it: its source URL, whether it is a
\* PDFDocument, len(doc.text), and doc.metadata
Document(url, pdf, len) == [url |-> url, pdf |-> pdf, len |-> len, metadata |-> EmptyDict]

\* the metadata check_for_ordinance_info may add to a document: the flag
\* read in line 96 and, for a document it keeps, possibly the date read in
\* line 111
OrdInfo(dates) ==
    {("contains_ord_info" :> FALSE), ("contains_ord_info" :> TRUE)}
    \cup {("contains_ord_info" :> TRUE) @@ ("date" :> d) : d \in dates}

\* the document with these keys added to doc.metadata
AddMeta(doc, meta) == [doc EXCEPT !.metadata = meta @@ doc.metadata]

\* marks of the history variables and of values not yet assigned
Dropped == [py |-> "dropped"]
Unset == [py |-> "unset"]

\* the orders in which a set may be iterated
Orders(S) ==
    {o \in [1..Cardinality(S) -> S] : \A i, j \in 1..Cardinality(S) : o[i] = o[j] => i = j}

\* [x for x in list if keep[i]]
RECURSIVE Filter(_, _, _)
Filter(list, keep, i) ==
    IF i > Len(list) THEN <<>>
    ELSE IF keep[i] THEN <<list[i]>> \o Filter(list, keep, i + 1)
    ELSE Filter(list, keep, i + 1)

\* the argument `location` of the run: full_name is passed to _find_urls and
\* names the tasks, name and state are passed to county_validator.check
location == [full_name |-> "Decatur County, Indiana", name |-> "Decatur", state |-> "Indiana"]

\* the history before any collaborator has been called: the check and
\* classify answers by URL, the search tasks and the check tasks in the order
\* in which they completed, the URLs whose classification raised; the number
\* of calls of search_engine.results by template and of
\* county_validator.check by URL, the templates whose search has completed,
\* and the URLs passed to check_for_ordinance_info, in the order of the calls
NoAnswers ==
    [check |-> EmptyDict, classify |-> EmptyDict, search_done |-> <<>>,
     check_done |-> <<>>, classify_failed |-> {},
     search_calls |-> EmptyDict, search_completed |-> {},
     check_calls |-> EmptyDict, classify_calls |-> <<>>]

\* a count by key with one more for key
Counted(counts, key) == (key :> (get(counts, key, 0) + 1)) @@ counts

\* asyncio.gather(*tasks) when every task has returned, lines 43 and 83: the
\* results in the order of the tasks, whatever the order `done` in which
\* the tasks completed
gather_CompletionOrder(tasks, done) == [k \in DOMAIN done |-> tasks[done[k]].value]

gather(tasks, done) == [i \in DOMAIN tasks |-> tasks[i].value]

\* the exception of the task that failed last
first_exception_Last(tasks, done) ==
    LET failed == {k \in DOMAIN done : tasks[done[k]].state = "failed"}
        last == CHOOSE k \in failed : \A j \in failed : k >= j
    IN  tasks[done[last]].exception

\* asyncio.gather(*tasks) when a task raised: the exception of the task
\* that failed first
first_exception(tasks, done) ==
    LET failed == {k \in DOMAIN done : tasks[done[k]].state = "failed"}
        first == CHOOSE k \in failed : \A j \in failed : k <= j
    IN  tasks[done[first]].exception

-----------------------------------------------------------------------------
(* download_county_ordinance, lines 146-164 *)

Init ==
    /\ pc = "start"
    /\ num_urls \in 0..MaxCap
    /\ searchers = <<>>
    /\ search_results = <<>>
    /\ urls = {}
    /\ docs = <<>>
    /\ checks = <<>>
    /\ ord_docs = <<>>
    /\ next_doc = 0
    /\ inflight = {}
    /\ logged = <<>>
    /\ result = Unset
    /\ error = Unset
    /\ loaded = EmptyDict
    /\ answers = NoAnswers
    /\ pages = <<>> /\ full = <<>> /\ loaded_pages = <<>>
    /\ raw_pages = <<>> /\ clean_pages = <<>> /\ posted = <<>>
    /\ calls = <<>>

\* the run leaves download_county_ordinance with exception e
Raise(e) ==
    /\ pc' = "raised"
    /\ error' = e

\* _find_urls, lines 36-42: one task per template is created
FindUrls ==
    /\ pc = "start"
    /\ pc' = "find_urls"
    /\ searchers' = [t \in 1..NumTemplates |->
                        [state |-> "created", name |-> location.full_name,
                         question |-> <<t, location.full_name>>]]
    /\ calls' = Append(calls, "_find_urls")
    /\ UNCHANGED <<num_urls, search_results, urls, docs, checks, ord_docs, next_doc,
                   inflight, logged, result, error, loaded, answers, pdf_vars>>

\* the event loop runs the created tasks in creation order; _search_single
\* reaches its await of search_engine.results, lines 27-31
SearchStart(t) ==
    /\ pc = "find_urls"
    /\ searchers[t].state = "created"
    /\ \A s \in 1..(t - 1) : searchers[s].state # "created"
    /\ searchers' = [searchers EXCEPT ![t].state = "running"]
    /\ answers' = [answers EXCEPT !.search_calls = Counted(@, t)]
    /\ UNCHANGED <<pc, num_urls, search_results, urls, docs, checks, ord_docs, next_doc,
                   inflight, logged, result, error, loaded, calls, pdf_vars>>

AllStarted(tasks) == \A t \in DOMAIN tasks : tasks[t].state # "created"

\* search_engine.results returns: one list of links per query, one query
SearchReturn(t) ==
    /\ pc \in {"find_urls", "raised"}
    /\ AllStarted(searchers)
    /\ searchers[t].state = "running"
    /\ \E links \in SearchAnswers :
          searchers' = [searchers EXCEPT ![t] = [state |-> "done", value |-> <<links>>] @@ @]
    /\ answers' = [answers EXCEPT !.search_done = Append(@, t),
                                  !.search_completed = @ \cup {t}]
    /\ UNCHANGED <<pc, num_urls, search_results, urls, docs, checks, ord_docs, next_doc,
                   inflight, logged, result, error, loaded, calls, pdf_vars>>

\* search_engine.results raises
SearchFail(t) ==
    /\ pc \in {"find_urls", "raised"}
    /\ AllStarted(searchers)
    /\ searchers[t].state = "running"
    /\ \E e \in CollaboratorErrors :
          searchers' = [searchers EXCEPT ![t] =
                           [state |-> "failed",
                            exception |-> Propagated(e, <<"_search_single">>)] @@ @]
    /\ answers' = [answers EXCEPT !.search_done = Append(@, t),
                                  !.search_completed = @ \cup {t}]
    /\ UNCHANGED <<pc, num_urls, search_results, urls, docs, checks, ord_docs, next_doc,
                   inflight, logged, result, error, loaded, calls, pdf_vars>>

\* line 43 as a gather that waits for every task and passes on the results
\* of the tasks that returned
SearchGather_Partial ==
    /\ pc = "find_urls"
    /\ \A t \in DOMAIN searchers : searchers[t].state \in {"done", "failed"}
    /\ search_results' = [t \in DOMAIN searchers |->
                             IF searchers[t].state = "done" THEN searchers[t].value
                             ELSE << <<>> >>]
    /\ pc' = "found"
    /\ UNCHANGED <<num_urls, searchers, urls, docs, checks, ord_docs, next_doc,
                   inflight, logged, result, error, loaded, answers, calls, pdf_vars>>

\* line 43 as a wait for the first task that returns: the results of the
\* tasks that have returned by then, an empty result for the others
SearchGather_FirstCompleted ==
    /\ pc = "find_urls"
    /\ \E t \in DOMAIN searchers : searchers[t].state = "done"
    /\ search_results' = [t \in DOMAIN searchers |->
                             IF searchers[t].state = "done" THEN searchers[t].value
                             ELSE << <<>> >>]
    /\ pc' = "found"
    /\ UNCHANGED <<num_urls, searchers, urls, docs, checks, ord_docs, next_doc,
                   inflight, logged, result, error, loaded, answers, calls, pdf_vars>>

\* asyncio.gather, line 43: all tasks done, the results in task order
SearchGather ==
    /\ pc = "find_urls"
    /\ \A t \in DOMAIN searchers : searchers[t].state = "done"
    /\ search_results' = gather(searchers, answers.search_done)
    /\ pc' = "found"
    /\ UNCHANGED <<num_urls, searchers, urls, docs, checks, ord_docs, next_doc,
                   inflight, logged, result, error, loaded, answers, calls, pdf_vars>>

\* asyncio.gather, line 43: a task failed; its exception is raised and is
\* not caught in lines 146-148; the other tasks are left as they are
SearchGatherRaise ==
    /\ pc = "find_urls"
    /\ \E t \in DOMAIN searchers : searchers[t].state = "failed"
    /\ Raise(Propagated(first_exception(searchers, answers.search_done),
                        <<"_find_urls", "download_county_ordinance">>))
    /\ UNCHANGED <<num_urls, searchers, search_results, urls, docs, checks, ord_docs,
                   next_doc, inflight, logged, result, loaded, answers, calls, pdf_vars>>

\* line 149; the tasks of _find_urls and the order in which they completed
\* are of no use to the run from here on
DownSelectUrls ==
    /\ pc = "found"
    /\ urls' = _down_select_urls(search_results, num_urls)
    /\ pc' = "selected"
    /\ searchers' = <<>>
    /\ answers' = [answers EXCEPT !.search_done = <<>>]
    /\ calls' = Append(calls, "_down_select_urls")
    /\ UNCHANGED <<num_urls, search_results, docs, checks, ord_docs, next_doc,
                   inflight, logged, result, error, loaded, pdf_vars>>

\* what the loader may make of a URL: no document, or a document of either
\* format with a text of some length
Fetches == {Dropped} \cup [pdf : BOOLEAN, len : 1..MaxTextLen]

\* a loader that gives up on every URL when one fetch fails
fetch_all_AllOrNothing(order, fetched) ==
    IF \E i \in 1..Len(order) : fetched[order[i]] = Dropped THEN <<>>
    ELSE [i \in 1..Len(order) |-> fetched[order[i]]]

\* AsyncFileLoader.fetch_all: a document per URL, in the order in which the
\* URLs are passed; a URL whose fetch fails is absent from the list
fetch_all(order, fetched) ==
    Filter([i \in 1..Len(order) |-> fetched[order[i]]],
           [i \in 1..Len(order) |-> fetched[order[i]] # Dropped], 1)

\* _load_docs, lines 61-67, called in line 150; the call unpacks the set
\* `urls`, in the iteration order of the set
LoadDocs ==
    /\ pc = "selected"
    /\ \E order \in Orders(urls) :
       \E web \in [urls -> Fetches] :
          LET fetched == [u \in urls |->
                            IF web[u] = Dropped THEN Dropped
                            ELSE Document(u, web[u].pdf, web[u].len)]
          IN  /\ docs' = fetch_all(order, fetched)
              /\ loaded' = fetched
    /\ pc' = "loaded"
    /\ search_results' = <<>>
    /\ calls' = calls \o <<"_load_docs", "fetch_all">>
    /\ UNCHANGED <<num_urls, searchers, urls, checks, ord_docs, next_doc,
                   inflight, logged, result, error, answers, pdf_vars>>

\* _down_select_docs_correct_location, lines 74-82: one task per document
CreateChecks ==
    /\ pc = "loaded"
    /\ pc' = "validating"
    /\ checks' = [i \in 1..Len(docs) |->
                     [state |-> "created", name |-> location.full_name,
                      doc |-> docs[i].url, county |-> location.name,
                      st |-> location.state]]
    /\ calls' = Append(calls, "_down_select_docs_correct_location")
    /\ UNCHANGED <<num_urls, searchers, search_results, urls, docs, ord_docs, next_doc,
                   inflight, logged, result, error, loaded, answers, pdf_vars>>

\* a task reaches its await inside county_validator.check(doc, county, state)
CheckStart(i) ==
    /\ pc = "validating"
    /\ checks[i].state = "created"
    /\ \A j \in 1..(i - 1) : checks[j].state # "created"
    /\ checks' = [checks EXCEPT ![i].state = "running"]
    /\ answers' = [answers EXCEPT !.check_calls = Counted(@, checks[i].doc)]
    /\ UNCHANGED <<pc, num_urls, searchers, search_results, urls, docs, ord_docs, next_doc,
                   inflight, logged, result, error, loaded, calls, pdf_vars>>

\* county_validator.check returns for document i
CheckReturn(i) ==
    /\ pc \in {"validating", "raised"}
    /\ AllStarted(checks)
    /\ checks[i].state = "running"
    /\ \E check \in BOOLEAN :
          /\ checks' = [checks EXCEPT ![i] = [state |-> "done", value |-> check] @@ @]
          /\ answers' = [answers EXCEPT !.check = (checks[i].doc :> check) @@ @,
                                        !.check_done = Append(@, i)]
    /\ UNCHANGED <<pc, num_urls, searchers, search_results, urls, docs, ord_docs, next_doc,
                   inflight, logged, result, error, loaded, calls, pdf_vars>>

\* a check that raised is called once more instead of failing its task
CheckFail_Retried(i) ==
    /\ pc \in {"validating", "raised"}
    /\ AllStarted(checks)
    /\ checks[i].state = "running"
    /\ answers.check_calls[checks[i].doc] < 2
    /\ answers' = [answers EXCEPT !.check_calls = Counted(@, checks[i].doc)]
    /\ UNCHANGED <<pc, num_urls, searchers, search_results, urls, docs, checks, ord_docs,
                   next_doc, inflight, logged, result, error, loaded, calls, pdf_vars>>

\* county_validator.check raises for document i
CheckFail(i) ==
    /\ pc \in {"validating", "raised"}
    /\ AllStarted(checks)
    /\ checks[i].state = "running"
    /\ \E e \in CollaboratorErrors :
          checks' = [checks EXCEPT ![i] = [state |-> "failed", exception |-> e] @@ @]
    /\ answers' = [answers EXCEPT !.check_done = Append(@, i)]
    /\ UNCHANGED <<pc, num_urls, searchers, search_results, urls, docs, ord_docs, next_doc,
                   inflight, logged, result, error, loaded, calls, pdf_vars>>

\* line 84 without its condition: every document is kept
correct_loc_docs_KeepAll(list, output) == list

\* line 84: [doc for doc, check in zip(docs, output) if check]
correct_loc_docs(list, output) == Filter(list, output, 1)

\* the key without the `not`
location_sorting_key_NonPdfFirst(doc) == <<PyInt(isPDFDocument(doc)), doc.len>>

\* the key of line 87
location_sorting_key(doc) == <<PyInt(~isPDFDocument(doc)), doc.len>>

\* lines 85-88
sorted_by_location_key(list) ==
    sorted(list, [i \in 1..Len(list) |-> location_sorting_key(list[i])])

\* lines 83-88 as a gather that waits for every check and takes a check
\* that raised for a check that answered False
ChecksGather_Partial ==
    /\ pc = "validating"
    /\ \A i \in DOMAIN checks : checks[i].state \in {"done", "failed"}
    /\ LET output == [i \in DOMAIN checks |->
                         checks[i].state = "done" /\ checks[i].value]
       IN  docs' = sorted_by_location_key(correct_loc_docs(docs, output))
    /\ pc' = "validated"
    /\ UNCHANGED <<num_urls, searchers, search_results, urls, checks, ord_docs, next_doc,
                   inflight, logged, result, error, loaded, answers, calls, pdf_vars>>

\* lines 83-88, and the assignment of line 151
ChecksGather ==
    /\ pc = "validating"
    /\ \A i \in DOMAIN checks : checks[i].state = "done"
    /\ LET output == gather(checks, answers.check_done)
       IN  docs' = sorted_by_location_key(correct_loc_docs(docs, output))
    /\ pc' = "validated"
    /\ UNCHANGED <<num_urls, searchers, search_results, urls, checks, ord_docs, next_doc,
                   inflight, logged, result, error, loaded, answers, calls, pdf_vars>>

\* line 83: a check failed; gather raises its exception, which is not caught
ChecksGatherRaise ==
    /\ pc = "validating"
    /\ \E i \in DOMAIN checks : checks[i].state = "failed"
    /\ Raise(Propagated(first_exception(checks, answers.check_done),
                        <<"_down_select_docs_correct_location", "download_county_ordinance">>))
    /\ UNCHANGED <<num_urls, searchers, search_results, urls, docs, checks, ord_docs,
                   next_doc, inflight, logged, result, loaded, answers, calls, pdf_vars>>

\* _check_docs_for_ords is called, line 158; line 93; the tasks of
\* _down_select_docs_correct_location are of no use from here on
EnterCheckDocs ==
    /\ pc = "validated"
    /\ pc' = "classifying"
    /\ ord_docs' = <<>>
    /\ next_doc' = 1
    /\ checks' = <<>>
    /\ answers' = [answers EXCEPT !.check_done = <<>>]
    /\ calls' = Append(calls, "_check_docs_for_ords")
    /\ UNCHANGED <<num_urls, searchers, search_results, urls, docs,
                   inflight, logged, result, error, loaded, pdf_vars>>

\* the calls for all the remaining documents are made at once
ClassifyCall_AllAtOnce ==
    /\ pc = "classifying"
    /\ inflight = {}
    /\ next_doc <= Len(docs)
    /\ inflight' = {docs[i].url : i \in next_doc..Len(docs)}
    /\ answers' = [answers EXCEPT !.classify_calls =
                                     @ \o [i \in 1..(Len(docs) + 1 - next_doc) |->
                                               docs[next_doc + i - 1].url]]
    /\ UNCHANGED <<pc, num_urls, searchers, search_results, urls, docs, checks, ord_docs,
                   next_doc, logged, result, error, loaded, calls, pdf_vars>>

\* line 95: check_for_ordinance_info is awaited for the next document
ClassifyCall ==
    /\ pc = "classifying"
    /\ inflight = {}
    /\ next_doc <= Len(docs)
    /\ inflight' = {docs[next_doc].url}
    /\ answers' = [answers EXCEPT !.classify_calls = Append(@, docs[next_doc].url)]
    /\ UNCHANGED <<pc, num_urls, searchers, search_results, urls, docs, checks, ord_docs,
                   next_doc, logged, result, error, loaded, calls, pdf_vars>>

\* the loop as one that ends at the first document that contains ordinance
\* info
ClassifyReturn_StopAtMatch ==
    /\ pc = "classifying"
    /\ inflight # {}
    /\ \E meta \in OrdInfo(PipeDates) :
          LET doc == AddMeta(docs[next_doc], meta)
          IN  /\ ord_docs' = IF doc.metadata["contains_ord_info"]
                             THEN Append(ord_docs, doc) ELSE ord_docs
              /\ answers' = [answers EXCEPT !.classify = (doc.url :> meta) @@ @]
              /\ next_doc' = IF doc.metadata["contains_ord_info"]
                             THEN Len(docs) + 1 ELSE next_doc + 1
    /\ inflight' = {}
    /\ UNCHANGED <<pc, num_urls, searchers, search_results, urls, docs, checks,
                   logged, result, error, loaded, calls, pdf_vars>>

\* lines 95-97: the call returns the document with metadata added
ClassifyReturn ==
    /\ pc = "classifying"
    /\ inflight # {}
    /\ \E meta \in OrdInfo(PipeDates) :
          LET doc == AddMeta(docs[next_doc], meta)
          IN  /\ ord_docs' = IF doc.metadata["contains_ord_info"]
                             THEN Append(ord_docs, doc) ELSE ord_docs
              /\ answers' = [answers EXCEPT !.classify = (doc.url :> meta) @@ @]
    /\ inflight' = {}
    /\ next_doc' = next_doc + 1
    /\ UNCHANGED <<pc, num_urls, searchers, search_results, urls, docs, checks,
                   logged, result, error, loaded, calls, pdf_vars>>

\* the loop as one that catches the exception and goes on with the next
\* document
ClassifyFail_Skipped ==
    /\ pc = "classifying"
    /\ inflight # {}
    /\ inflight' = {}
    /\ answers' = [answers EXCEPT !.classify_failed = @ \cup inflight]
    /\ next_doc' = next_doc + 1
    /\ UNCHANGED <<pc, num_urls, searchers, search_results, urls, docs, checks, ord_docs,
                   logged, result, error, loaded, calls, pdf_vars>>

\* line 95: check_for_ordinance_info raises; nothing catches it
ClassifyFail ==
    /\ pc = "classifying"
    /\ inflight # {}
    /\ inflight' = {}
    /\ answers' = [answers EXCEPT !.classify_failed = @ \cup inflight]
    /\ \E e \in CollaboratorErrors :
          Raise(Propagated(e, <<"_check_docs_for_ords", "download_county_ordinance">>))
    /\ UNCHANGED <<num_urls, searchers, search_results, urls, docs, checks, ord_docs,
                   next_doc, logged, result, loaded, calls, pdf_vars>>

\* line 98 and the assignment of line 158
LeaveCheckDocs ==
    /\ pc = "classifying"
    /\ inflight = {}
    /\ next_doc > Len(docs)
    /\ docs' = ord_docs
    /\ pc' = "classified"
    /\ UNCHANGED <<num_urls, searchers, search_results, urls, checks, ord_docs, next_doc,
                   inflight, logged, result, error, loaded, answers, calls, pdf_vars>>

\* lines 159-163
LogFound ==
    /\ pc = "classified"
    /\ logged' = <<Len(docs)>>
    /\ pc' = "logged"
    /\ UNCHANGED <<num_urls, searchers, search_results, urls, docs, checks, ord_docs,
                   next_doc, inflight, result, error, loaded, answers, calls, pdf_vars>>

\* line 164
ParseAllOrdDocs ==
    /\ pc = "logged"
    /\ calls' = Append(calls, "_parse_all_ord_docs")
    /\ LET best == _parse_all_ord_docs(docs)
       IN  IF IsException(best)
           THEN /\ Raise(Propagated(best, <<"_parse_all_ord_docs", "download_county_ordinance">>))
                /\ UNCHANGED result
           ELSE pc' = "returned" /\ result' = best /\ UNCHANGED error
    /\ UNCHANGED <<num_urls, searchers, search_results, urls, docs, checks, ord_docs,
                   next_doc, inflight, logged, loaded, answers, pdf_vars>>

Next ==
    \/ FindUrls
    \/ \E t \in 1..NumTemplates : SearchStart(t)
    \/ \E t \in DOMAIN searchers : SearchReturn(t)
    \/ \E t \in DOMAIN searchers : SearchFail(t)
    \/ SearchGather
    \/ SearchGatherRaise
    \/ DownSelectUrls
    \/ LoadDocs
    \/ CreateChecks
    \/ \E i \in DOMAIN checks : CheckStart(i)
    \/ \E i \in DOMAIN checks : CheckReturn(i)
    \/ \E i \in DOMAIN checks : CheckFail(i)
    \/ ChecksGather
    \/ ChecksGatherRaise
    \/ EnterCheckDocs
    \/ ClassifyCall
    \/ ClassifyReturn
    \/ ClassifyFail
    \/ LeaveCheckDocs
    \/ LogFound
    \/ ParseAllOrdDocs

Spec == Init /\ [][Next]_vars

-----------------------------------------------------------------------------
(* _down_select_urls on its own: SpecSelect *)

SelectUrls == {EmptyStr, "a", "b"}

\* the ranked lists of length 0..MaxRank
RankedLists == UNION {[1..n -> SelectUrls] : n \in 0..MaxRank}

\* the example of the round-robin property: [[a,b],[c,d],[e,f]]
ExampleLists == << <<"a", "b">>, <<"c", "d">>, <<"e", "f">> >>

\* search_results as _find_urls returns them: per template, the value of
\* search_engine.results, a list holding the list of links of the one query
AsSearchResults(lists) == [t \in 1..Len(lists) |-> <<lists[t]>>]

InitSelect ==
    /\ pc = "found"
    /\ \/ /\ \E lists \in UNION {[1..n -> RankedLists] : n \in 0..MaxLists} :
                search_results = AsSearchResults(lists)
          /\ num_urls \in 0..MaxCap
       \/ /\ search_results = AsSearchResults(ExampleLists)
          /\ num_urls = 4
    /\ searchers = <<>>
    /\ urls = {}
    /\ docs = <<>>
    /\ checks = <<>>
    /\ ord_docs = <<>>
    /\ next_doc = 0
    /\ inflight = {}
    /\ logged = <<>>
    /\ result = Unset
    /\ error = Unset
    /\ loaded = EmptyDict
    /\ answers = NoAnswers
    /\ pages = <<>> /\ full = <<>> /\ loaded_pages = <<>>
    /\ raw_pages = <<>> /\ clean_pages = <<>> /\ posted = <<>>
    /\ calls = <<"_find_urls">>

NextSelect == DownSelectUrls

SpecSelect == InitSelect /\ [][NextSelect]_vars

-----------------------------------------------------------------------------
(* _parse_all_ord_docs on its own: SpecParse *)

\* the metadata of a document that check_for_ordinance_info kept
KeptOrdInfo == {m \in OrdInfo(Dates \cup PartialDates) : m["contains_ord_info"]}

\* what distinguishes the documents of a list handed to _parse_all_ord_docs
OrdDocChoices == [pdf : BOOLEAN, len : 1..MaxTextLen, metadata : KeptOrdInfo]

\* docs is a list of 0..MaxDocs distinct content-matching documents
InitParse ==
    /\ pc = "logged"
    /\ \E n \in 0..MaxDocs :
       \E c \in [1..n -> OrdDocChoices] :
          docs = [i \in 1..n |->
                     AddMeta(Document(UrlNames[i], c[i].pdf, c[i].len), c[i].metadata)]
    /\ ord_docs = docs
    /\ logged = <<Len(docs)>>
    /\ num_urls = 0
    /\ searchers = <<>>
    /\ search_results = <<>>
    /\ urls = {}
    /\ checks = <<>>
    /\ next_doc = Len(docs) + 1
    /\ inflight = {}
    /\ result = Unset
    /\ error = Unset
    /\ loaded = EmptyDict
    /\ answers = NoAnswers
    /\ pages = <<>> /\ full = <<>> /\ loaded_pages = <<>>
    /\ raw_pages = <<>> /\ clean_pages = <<>> /\ posted = <<>>
    /\ calls = <<>>

NextParse == ParseAllOrdDocs

SpecParse == InitParse /\ [][NextParse]_vars

-----------------------------------------------------------------------------
(* Python strings and lists, elm/pdf.py; a string is the sequence of its
   characters *)

\* str.split(sep) for a separator of one character
RECURSIVE split(_, _)
split(str, sep) ==
    IF \A i \in DOMAIN str : str[i] # sep THEN <<str>>
    ELSE LET k == CHOOSE i \in DOMAIN str :
                      str[i] = sep /\ \A j \in 1..(i - 1) : str[j] # sep
         IN  <<SubSeq(str, 1, k - 1)>> \o split(SubSeq(str, k + 1, Len(str)), sep)

\* sep.join(list)
RECURSIVE join(_, _)
join(list, sep) ==
    IF Len(list) = 0 THEN <<>>
    ELSE IF Len(list) = 1 THEN list[1]
    ELSE list[1] \o <<sep>> \o join(Tail(list), sep)

\* list[i] and list.pop(i) do not raise IndexError
InRange(list, i) == -1 * Len(list) <= i /\ i < Len(list)

\* the position of list[i] counted from 1, for i negative from the end
Position(list, i) == IF i >= 0 THEN i + 1 ELSE Len(list) + i + 1

\* list[i]
item(list, i) == list[Position(list, i)]

\* the list after list.pop(i)
pop(list, i) ==
    SubSeq(list, 1, Position(list, i) - 1) \o SubSeq(list, Position(list, i) + 1, Len(list))

\* str.replace(' ', '')
replace_spaces(str) == SelectSeq(str, LAMBDA c : c # " ")

\* str.ljust(width)
ljust(str, width) ==
    IF Len(str) >= width THEN str
    ELSE str \o [i \in 1..(width - Len(str)) |-> " "]

\* the bullet character U+2022
bullet == "bullet"

\* lines 300-301: a newline followed by a bullet becomes a hyphen, then
\* every other bullet becomes a hyphen
replace_bullets(str) ==
    LET replaced == [i \in 1..Len(str) |->
                        IF str[i] = bullet THEN "-"
                        ELSE IF str[i] = "\n" /\ i < Len(str) /\ str[i + 1] = bullet THEN ""
                        ELSE str[i]]
    IN  SelectSeq(replaced, LAMBDA c : c # "")

-----------------------------------------------------------------------------
(* PDFtoTXT.combine_pages and PDFtoTXT.clean_headers, lines 284-377 *)

\* the default arguments of clean_headers, the thresholds in tenths
char_thresh == 6
page_thresh == 8
split_on == "\n"
iheaders == <<0, 1, -2, -1>>

combine_pages(list) == replace_bullets(join(list, "\n"))

\* lines 346-361: the fraction of the characters of header and pheader that
\* agree, as numerator and denominator
header_test(header, pheader) ==
    LET harr0 == replace_spaces(header)
        parr0 == replace_spaces(pheader)
        harr == ljust(harr0, Len(parr0))
        parr == ljust(parr0, Len(harr))
    IN  IF Len(harr) = 0 THEN <<1, 1>>
        ELSE <<Cardinality({i \in 1..Len(harr) : harr[i] = parr[i]}), Len(harr)>>

\* a fraction is greater than a threshold given in tenths
Exceeds(fraction, tenths) == fraction[1] * 10 > tenths * fraction[2]

\* lines 337-363: the array `tests` after the loop, by page and by column
\* counted from 1; tests[ip, ih] is written for ih in iheaders, a negative
\* ih counting from the last column, the other entries stay 0
header_tests(list, headers) ==
    [ip \in 1..Len(list) |->
        [c \in 1..Len(iheaders) |->
            LET written == {k \in 1..Len(iheaders) : Position(iheaders, iheaders[k]) = c}
                k == CHOOSE x \in written : \A y \in written : x >= y
                lines == split(list[ip], split_on)
                pheader == IF InRange(lines, iheaders[k]) THEN item(lines, iheaders[k])
                           ELSE <<>>
            IN  IF written = {} THEN <<0, 1>>
                ELSE header_test(headers[k], pheader)]]

\* lines 366-367: per column, whether more than page_thresh of the pages
\* have a test greater than char_thresh
header_flags(list, headers) ==
    LET tests == header_tests(list, headers)
    IN  [c \in 1..Len(iheaders) |->
            Cardinality({ip \in 1..Len(list) : Exceeds(tests[ip][c], char_thresh)}) * 10
                > page_thresh * Len(list)]

\* lines 372-374: for each flagged header in turn, page.pop(iheader) on the
\* list as the earlier pops left it; a pop out of range raises IndexError
RECURSIVE pop_headers(_, _, _)
pop_headers(lines, flags, i) ==
    IF i > Len(iheaders) THEN [lines |-> lines, raised |-> FALSE]
    ELSE IF ~flags[i] THEN pop_headers(lines, flags, i + 1)
    ELSE IF ~InRange(lines, iheaders[i]) THEN [lines |-> lines, raised |-> TRUE]
    ELSE pop_headers(pop(lines, iheaders[i]), flags, i + 1)

\* lines 370-377: the pages from ip on are replaced one after the other
RECURSIVE pop_pages(_, _, _)
pop_pages(list, flags, ip) ==
    IF ip > Len(list) THEN [pages |-> list, raised |-> FALSE]
    ELSE LET page == pop_headers(split(list[ip], split_on), flags, 1)
         IN  IF page.raised THEN [pages |-> list, raised |-> TRUE]
             ELSE pop_pages([list EXCEPT ![ip] = join(page.lines, split_on)], flags, ip + 1)

\* clean_headers up to line 377: self.pages when it returns or raises
clean_headers(list) ==
    IF Len(list) = 0 THEN [pages |-> list, raised |-> TRUE]
    ELSE LET last == split(list[Len(list)], split_on)
         IN  IF \E i \in 1..Len(iheaders) : ~InRange(last, iheaders[i])
             THEN [pages |-> list, raised |-> TRUE]
             ELSE LET headers == [i \in 1..Len(iheaders) |-> item(last, iheaders[i])]
                  IN  pop_pages(list, header_flags(list, headers), 1)

\* a call of clean_headers with the default arguments, on an object whose
\* self.pages is the list self.raw_pages, line 49: line 376 writes the list
\* in place
CleanHeaders ==
    /\ pc = "clean_headers"
    /\ LET out == clean_headers(pages)
       IN  /\ pages' = out.pages
           /\ raw_pages' = out.pages
           /\ IF out.raised
              THEN /\ Raise(Propagated(Exception("IndexError"), <<"clean_headers">>))
                   /\ UNCHANGED <<full, result>>
              ELSE /\ full' = combine_pages(out.pages)
                   /\ result' = combine_pages(out.pages)
                   /\ pc' = "returned"
                   /\ UNCHANGED error
    /\ UNCHANGED <<num_urls, searchers, search_results, urls, docs, checks, ord_docs,
                   next_doc, inflight, logged, loaded, answers, calls, clean_pages,
                   posted, loaded_pages>>

-----------------------------------------------------------------------------
(* Properties of _parse_all_ord_docs, checked under SpecParse *)

Range(f) == {f[i] : i \in DOMAIN f}

HasDate(doc) == "date" \in DOMAIN doc.metadata
YearOf(doc) == IF HasDate(doc) THEN doc.metadata["date"][1] ELSE -1
MonthOf(doc) == IF HasDate(doc) THEN doc.metadata["date"][2] ELSE -1
DayOf(doc) == IF HasDate(doc) THEN doc.metadata["date"][3] ELSE -1

\* d ranks at least as high as e: later year; then PDF over non-PDF; then
\* the shorter text; then later month; then later day
RanksAtLeast(d, e) ==
    \/ YearOf(d) > YearOf(e)
    \/ /\ YearOf(d) = YearOf(e)
       /\ \/ d.pdf /\ ~e.pdf
          \/ /\ d.pdf = e.pdf
             /\ \/ d.len < e.len
                \/ /\ d.len = e.len
                   /\ \/ MonthOf(d) > MonthOf(e)
                      \/ MonthOf(d) = MonthOf(e) /\ DayOf(d) >= DayOf(e)

\* C1: for a non-empty list of content-matching documents the value returned
\* by _parse_all_ord_docs is a document of the list whose key (year, isPDF,
\* -len(text), month, day) is at least the key of every document of the list;
\* hence no document of the list has a later year, none of the same year is a
\* PDF when the result is not, and none of the same year and format is shorter
C1_BestMatchIsMaximal ==
    (pc = "returned" /\ Len(docs) > 0) =>
        /\ result \in Range(docs)
        /\ \A i \in DOMAIN docs :
              /\ RanksAtLeast(result, docs[i])
              /\ YearOf(docs[i]) <= YearOf(result)
              /\ YearOf(docs[i]) = YearOf(result) => (docs[i].pdf => result.pdf)
              /\ (YearOf(docs[i]) = YearOf(result) /\ docs[i].pdf = result.pdf)
                    => result.len <= docs[i].len

\* a list of two documents of the same year and format, the shorter one
\* returned although the longer one has the later month and day
C1_Witness ==
    /\ pc = "returned"
    /\ \E i, j \in DOMAIN docs :
          /\ HasDate(docs[i]) /\ HasDate(docs[j])
          /\ YearOf(docs[i]) = YearOf(docs[j])
          /\ docs[i].pdf = docs[j].pdf
          /\ docs[i].len < docs[j].len
          /\ MonthOf(docs[i]) < MonthOf(docs[j])
          /\ DayOf(docs[i]) < DayOf(docs[j])
          /\ result = docs[i]

\* C6: _parse_all_ord_docs applied to an empty list returns None and does
\* not raise
C6_EmptyListGivesNone ==
    (pc # "logged" /\ Len(docs) = 0) =>
        (pc = "returned" /\ result = None /\ error = Unset)

C6_Witness == pc = "returned" /\ docs = <<>> /\ result = None

\* the component of the publication date of doc, or -1 when the document
\* has no date or the component is unknown
KnownOr(doc, i) ==
    IF HasDate(doc) /\ doc.metadata["date"][i] # NoneComponent
    THEN doc.metadata["date"][i] ELSE -1

\* C15 as stated: in the key of every document year, month and day are
\* each the known component or else -1, also for a date of which only some
\* components are known, and the selection over the list completes with
\* a document of the list, or with None for the empty list
C15_UnknownComponentsAreMinusOne ==
    pc # "logged" =>
        /\ \A i \in DOMAIN docs :
              LET key == _ord_doc_sorting_key(docs[i])
              IN  key[1] = KnownOr(docs[i], 1) /\ key[4] = KnownOr(docs[i], 2)
                      /\ key[5] = KnownOr(docs[i], 3)
        /\ pc = "returned"
        /\ error = Unset
        /\ result \in Range(docs) \cup {None}

-----------------------------------------------------------------------------
(* Properties of _down_select_urls, checked under SpecSelect *)

\* the per-template lists of links handed to _down_select_urls
InputLists == [t \in DOMAIN search_results |-> search_results[t][1]]

\* every URL of the input lists, the empty string excluded
InputUrls == UNION {Range(InputLists[t]) : t \in DOMAIN InputLists} \ {EmptyStr}

\* C7: for every cap that is a non-negative integer the returned set has at
\* most cap elements
C7_AtMostCap ==
    pc = "selected" => Cardinality(urls) <= num_urls

\* C8: every URL of the returned set is non-empty, is not the padding value
\* of exhausted templates, and occurs in one of the input lists
C8_OutputUrlsAreInputUrls ==
    pc = "selected" =>
        \A u \in urls :
            /\ u # EmptyStr
            /\ u # fillvalue
            /\ \E t \in DOMAIN InputLists : \E r \in DOMAIN InputLists[t] :
                  InputLists[t][r] = u

\* the loop ran over an empty string and over the padding of an exhausted
\* template, and returned a non-empty set
C8_Witness ==
    /\ pc = "selected"
    /\ urls # {}
    /\ Cardinality(urls) < num_urls
    /\ \E t \in DOMAIN InputLists : EmptyStr \in Range(InputLists[t])
    /\ \E s, t \in DOMAIN InputLists : Len(InputLists[s]) < Len(InputLists[t])

\* the non-empty URLs in round-robin order: rank 1 of list 1, 2, ..., then
\* rank 2 of list 1, 2, ..., the exhausted lists skipped
RECURSIVE RoundRobin(_, _, _)
RoundRobin(lists, r, t) ==
    IF \A s \in DOMAIN lists : Len(lists[s]) < r THEN <<>>
    ELSE IF t > Len(lists) THEN RoundRobin(lists, r + 1, 1)
    ELSE IF r <= Len(lists[t]) /\ lists[t][r] # EmptyStr
         THEN <<lists[t][r]>> \o RoundRobin(lists, r, t + 1)
         ELSE RoundRobin(lists, r, t + 1)

\* the first cap distinct elements of a sequence
FirstDistinct(seq, cap) ==
    {seq[i] : i \in {k \in DOMAIN seq :
                        Cardinality({seq[j] : j \in 1..(k - 1)}) < cap}}

\* the rank of a URL: the lowest rank at which a list holds it
RankOf(u) ==
    CHOOSE r \in 1..Max({Len(InputLists[t]) : t \in DOMAIN InputLists}) :
        /\ \E t \in DOMAIN InputLists : r <= Len(InputLists[t]) /\ InputLists[t][r] = u
        /\ \A t \in DOMAIN InputLists : \A q \in 1..(r - 1) :
              q <= Len(InputLists[t]) => InputLists[t][q] # u

\* C9: the returned set is the set of the first cap distinct non-empty URLs
\* of the round-robin traversal, so a URL of rank r is returned only if every
\* URL of lower rank is; [[a,b],[c,d],[e,f]] with cap 4 gives {a,c,e,b}
C9_FirstCapOfRoundRobin ==
    pc = "selected" =>
        /\ urls = FirstDistinct(RoundRobin(InputLists, 1, 1), num_urls)
        /\ \A u \in urls :
              \A s \in DOMAIN InputLists : \A q \in DOMAIN InputLists[s] :
                  (q < RankOf(u) /\ InputLists[s][q] # EmptyStr)
                      => InputLists[s][q] \in urls
        /\ (InputLists = ExampleLists /\ num_urls = 4) => urls = {"a", "c", "e", "b"}

\* C10: a repeated URL counts once toward the cap: with at least cap
\* distinct non-empty input URLs the result has exactly cap URLs, with fewer
\* it is the set of all of them
C10_DuplicatesCountOnce ==
    pc = "selected" =>
        /\ Cardinality(InputUrls) >= num_urls => Cardinality(urls) = num_urls
        /\ Cardinality(InputUrls) < num_urls => urls = InputUrls

-----------------------------------------------------------------------------
(* Properties of download_county_ordinance, checked under Spec *)

\* the document of url as the run handles it once it is classified
Classified(url) == AddMeta(loaded[url], answers.classify[url])

\* C2: when download_county_ordinance returns, its value is None or exactly
\* one Document: the one the loader returned for a URL of the selected set,
\* whose jurisdiction check answered true and which check_for_ordinance_info
\* marked as containing ordinance info
C2_ResultIsOneCheckedDocument ==
    pc = "returned" =>
        \/ result = None
        \/ /\ DOMAIN result = {"url", "pdf", "len", "metadata"}
           /\ result.url \in urls
           /\ loaded[result.url] # Dropped
           /\ result.url \in DOMAIN answers.check
           /\ answers.check[result.url]
           /\ result.url \in DOMAIN answers.classify
           /\ answers.classify[result.url]["contains_ord_info"]
           /\ result = Classified(result.url)

\* a document is returned in a run that fetched another document, which
\* the jurisdiction check refused
C2_Witness ==
    /\ pc = "returned"
    /\ result # None
    /\ \E u \in DOMAIN answers.check : u # result.url /\ ~answers.check[u]

\* download_county_ordinance from `docs = await _load_docs(urls, ...)` on,
\* with the set iterated in the given order and the collaborators answering
\* as they did in this run
RunWithOrder(order) ==
    LET fetched == fetch_all(order, loaded)
        output == [i \in 1..Len(fetched) |-> answers.check[fetched[i].url]]
        located == sorted_by_location_key(correct_loc_docs(fetched, output))
        checked == [i \in 1..Len(located) |-> Classified(located[i].url)]
        kept == Filter(checked,
                       [i \in 1..Len(checked) |-> checked[i].metadata["contains_ord_info"]], 1)
    IN  _parse_all_ord_docs(kept)

\* C3: with the same search results, the same document per URL and the same
\* classifier answers, the run returns the same value for every iteration
\* order of the URL set and every completion order of the tasks
C3_SameResultForEveryOrder ==
    pc = "returned" => \A order \in Orders(urls) : RunWithOrder(order) = result

\* no call of a collaborator has raised
NoCallFailed ==
    /\ \A t \in DOMAIN searchers : searchers[t].state # "failed"
    /\ \A i \in DOMAIN checks : checks[i].state # "failed"
    /\ answers.classify_failed = {}

\* the stages that have completed with zero items
NoUrlSelected == "_down_select_urls" \in Range(calls) /\ urls = {}

NoDocFetched ==
    "fetch_all" \in Range(calls) /\ \A u \in DOMAIN loaded : loaded[u] = Dropped

NoDocLocated ==
    /\ pc = "validated" \/ "_check_docs_for_ords" \in Range(calls)
    /\ \A u \in DOMAIN answers.check : ~answers.check[u]

NoDocKept ==
    /\ pc \in {"classified", "logged"} \/ "_parse_all_ord_docs" \in Range(calls)
    /\ \A u \in DOMAIN answers.classify : ~answers.classify[u]["contains_ord_info"]

\* C4: when no collaborator call fails and a stage has yielded zero items,
\* the run does not raise and what it returns is None
C4_EmptyStageGivesNone ==
    (NoCallFailed /\ (NoUrlSelected \/ NoDocFetched \/ NoDocLocated \/ NoDocKept)) =>
        /\ pc # "raised"
        /\ pc = "returned" => result = None

\* URLs were selected, the loader returned no document, None is returned
C4_Witness ==
    /\ pc = "returned"
    /\ urls # {}
    /\ NoDocFetched
    /\ result = None

\* the calls made after the first call of f
CallsAfter(f) ==
    LET first == CHOOSE i \in DOMAIN calls :
                     calls[i] = f /\ \A j \in 1..(i - 1) : calls[j] # f
    IN  {calls[i] : i \in (first + 1)..Len(calls)}

\* the stage functions and the loader call, in the order of lines 146-164
AllCalls ==
    <<"_find_urls", "_down_select_urls", "_load_docs", "fetch_all",
      "_down_select_docs_correct_location", "_check_docs_for_ords",
      "_parse_all_ord_docs">>

\* C5 as stated: after the first stage that yields zero items no later
\* stage is invoked; with no URL selected the loader is not called, with no
\* document fetched the jurisdiction filter and the classification stage
\* are not entered
C5_LaterStagesNotInvoked ==
    /\ NoUrlSelected => CallsAfter("_down_select_urls") = {}
    /\ NoDocFetched =>
          CallsAfter("fetch_all") \cap
              {"_down_select_docs_correct_location", "_check_docs_for_ords"} = {}
    /\ NoDocLocated => "_check_docs_for_ords" \notin Range(calls)

\* C5 as amended: the later stages are entered all the same, each with an
\* empty input, up to _parse_all_ord_docs; what does not happen after an
\* empty stage is the work per item: fetch_all is called with no URL, no
\* jurisdiction check is created and no classification call is made
C5_LaterStagesDoNoWork ==
    /\ pc = "returned" => calls = AllCalls
    /\ NoUrlSelected =>
          /\ DOMAIN loaded = {}
          /\ docs = <<>> /\ checks = <<>>
          /\ DOMAIN answers.check = {} /\ DOMAIN answers.classify = {}
          /\ inflight = {}
    /\ NoDocFetched =>
          /\ docs = <<>> /\ checks = <<>>
          /\ DOMAIN answers.check = {} /\ DOMAIN answers.classify = {}
          /\ inflight = {}
    /\ NoDocLocated =>
          /\ docs = <<>>
          /\ DOMAIN answers.classify = {}
          /\ inflight = {}

\* no document passed the jurisdiction filter, and the run went through
\* every later stage to its return
C5_Witness ==
    /\ pc = "returned"
    /\ NoDocLocated
    /\ DOMAIN answers.check # {}
    /\ calls = AllCalls

-----------------------------------------------------------------------------
(* Failures of the collaborators, checked under Spec *)

SearchFailed == \E t \in DOMAIN searchers : searchers[t].state = "failed"

\* C11: once a search request has failed the run can only raise, and it
\* raises the exception of the search that failed first: no list of search
\* results is passed on, whatever the other search tasks returned before or
\* after the failure, no stage after _find_urls is called, nothing is
\* fetched, no jurisdiction check and no classification is started, and
\* nothing is returned
C11_SearchFailureFailsRun ==
    SearchFailed =>
        /\ pc \in {"find_urls", "raised"}
        /\ pc = "raised" =>
              error = Propagated(first_exception(searchers, answers.search_done),
                                 <<"_find_urls", "download_county_ordinance">>)
        /\ search_results = <<>>
        /\ urls = {}
        /\ Range(calls) = {"_find_urls"}
        /\ DOMAIN loaded = {} /\ docs = <<>>
        /\ checks = <<>> /\ DOMAIN answers.check = {} /\ answers.check_done = <<>>
        /\ ord_docs = <<>> /\ inflight = {} /\ DOMAIN answers.classify = {}
        /\ result = Unset

\* the run has raised; one search returned links before the failing search
\* failed and another one returned links after it
C11_Witness ==
    /\ pc = "raised"
    /\ \E i, j, k \in DOMAIN answers.search_done :
          /\ i < j /\ j < k
          /\ searchers[answers.search_done[j]].state = "failed"
          /\ searchers[answers.search_done[i]].state = "done"
          /\ searchers[answers.search_done[i]].value # << <<>> >>
          /\ searchers[answers.search_done[k]].state = "done"
          /\ searchers[answers.search_done[k]].value # << <<>> >>

CheckFailed == \E i \in DOMAIN checks : checks[i].state = "failed"

\* C12: once a jurisdiction check has failed the run can only raise, and
\* it raises the exception of the check that failed first: docs is still
\* the unfiltered list of fetched documents, _check_docs_for_ords is not
\* called, no classification is made, and nothing is returned
C12_CheckFailureFailsRun ==
    CheckFailed =>
        /\ pc \in {"validating", "raised"}
        /\ pc = "raised" =>
              error = Propagated(first_exception(checks, answers.check_done),
                                 <<"_down_select_docs_correct_location",
                                   "download_county_ordinance">>)
        /\ Len(docs) = Len(checks)
        /\ \A i \in DOMAIN checks : docs[i] = loaded[checks[i].doc]
        /\ "_check_docs_for_ords" \notin Range(calls)
        /\ "_parse_all_ord_docs" \notin Range(calls)
        /\ ord_docs = <<>> /\ inflight = {}
        /\ DOMAIN answers.classify = {} /\ answers.classify_failed = {}
        /\ result = Unset

\* the run has raised; one check answered True before the failing check
\* failed and another one answered True after it
C12_Witness ==
    /\ pc = "raised"
    /\ \E i, j, k \in DOMAIN answers.check_done :
          /\ i < j /\ j < k
          /\ checks[answers.check_done[j]].state = "failed"
          /\ checks[answers.check_done[i]].state = "done"
          /\ checks[answers.check_done[i]].value
          /\ checks[answers.check_done[k]].state = "done"
          /\ checks[answers.check_done[k]].value

\* the documents the loader made of the selected URLs
Fetched == {loaded[u] : u \in DOMAIN loaded} \ {Dropped}

-----------------------------------------------------------------------------
(* Outcomes of a run, checked under Spec *)

IsDocument(v) == DOMAIN v = {"url", "pdf", "len", "metadata"}

\* a run that has ended has returned a document or None, or else has
\* raised an exception, and a run that has not ended has done neither
ExactlyOneOutcome ==
    /\ pc = "returned" => error = Unset /\ (result = None \/ IsDocument(result))
    /\ pc = "raised" => result = Unset /\ IsException([error EXCEPT !.traceback = <<>>])
    /\ pc \notin {"returned", "raised"} => result = Unset /\ error = Unset

\* C14 as stated: the outcomes are a Document, None or a fatal error, and
\* the error raised names the stage that failed, the search fan-out or the
\* jurisdiction filter, and the location of the run
C14_ErrorNamesStageAndLocation ==
    /\ ExactlyOneOutcome
    /\ pc = "raised" =>
          /\ \/ "_find_urls" \in Range(error.traceback)
             \/ "_down_select_docs_correct_location" \in Range(error.traceback)
          /\ "location" \in DOMAIN error
          /\ error.location = location.full_name

\* C14 as amended: the fatal error is the exception of the call that
\* failed, as that call raised it: the exception of the search or of the
\* jurisdiction check that failed first, of the failing classification
\* call, or the TypeError of the comparison of two ranking keys; it holds
\* its type and the functions it has left, of which the second but last is
\* the stage function, and nothing about the location
C14_ErrorIsTheFailingCallsException ==
    /\ ExactlyOneOutcome
    /\ pc = "raised" =>
          /\ DOMAIN error = {"py", "kind", "traceback"}
          /\ \/ /\ SearchFailed
                /\ error = Propagated(first_exception(searchers, answers.search_done),
                                      <<"_find_urls", "download_county_ordinance">>)
             \/ /\ CheckFailed
                /\ error = Propagated(first_exception(checks, answers.check_done),
                                      <<"_down_select_docs_correct_location",
                                        "download_county_ordinance">>)
             \/ /\ answers.classify_failed # {}
                /\ \E e \in CollaboratorErrors :
                      error = Propagated(e, <<"_check_docs_for_ords",
                                              "download_county_ordinance">>)
             \/ /\ NoCallFailed
                /\ \E i, j \in DOMAIN docs :
                      TupleLessRaises(_ord_doc_sorting_key(docs[i]),
                                      _ord_doc_sorting_key(docs[j]))
                /\ error = Propagated(Exception("TypeError"),
                                      <<"_parse_all_ord_docs", "download_county_ordinance">>)

\* two jurisdiction checks failed with different exceptions, and the run
\* raised the first of them
C14_Witness ==
    /\ pc = "raised"
    /\ \E i, j \in DOMAIN checks :
          /\ checks[i].state = "failed" /\ checks[j].state = "failed"
          /\ checks[i].exception # checks[j].exception
          /\ error.kind = checks[i].exception.kind

-----------------------------------------------------------------------------
(* Properties of _down_select_docs_correct_location, checked under Spec *)

\* C16 as stated: the list is ascending by (is a PDF, text length): the
\* documents that are no PDF first, then the PDFs, each group by ascending
\* text length
C16_NonPdfFirst ==
    pc = "validated" =>
        \A i, j \in DOMAIN docs :
            i < j => \/ ~docs[i].pdf /\ docs[j].pdf
                     \/ docs[i].pdf = docs[j].pdf /\ docs[i].len <= docs[j].len

\* C16 as amended: the list is ascending by (is no PDF, text length): the
\* PDFs first, then the documents that are no PDF, each group by ascending
\* text length
C16_PdfFirst ==
    pc = "validated" =>
        \A i, j \in DOMAIN docs :
            i < j => \/ docs[i].pdf /\ ~docs[j].pdf
                     \/ docs[i].pdf = docs[j].pdf /\ docs[i].len <= docs[j].len

\* a PDF comes before a shorter document that is no PDF
C16_Witness ==
    /\ pc = "validated"
    /\ \E i, j \in DOMAIN docs :
          i < j /\ docs[i].pdf /\ ~docs[j].pdf /\ docs[i].len > docs[j].len

-----------------------------------------------------------------------------
(* Concurrency of the stages, checked under Spec *)

\* C18: _find_urls creates one task per template, each with the question
\* of its template, all of them before any of them completes; and its
\* value holds, for every order in which the tasks complete, at position t
\* the value the search of template t returned
C18_OneTaskPerTemplateResultsInOrder ==
    /\ answers.search_done # <<>> =>
          /\ Len(searchers) = NumTemplates
          /\ \A t \in 1..NumTemplates :
                searchers[t].question = <<t, location.full_name>>
    /\ pc = "found" =>
          /\ Len(search_results) = NumTemplates
          /\ \A t \in 1..NumTemplates : search_results[t] = searchers[t].value

\* the search of the last template completed first and the search of the
\* first template last, with different lists of links
C18_Witness ==
    /\ pc = "found"
    /\ answers.search_done[1] = NumTemplates
    /\ answers.search_done[NumTemplates] = 1
    /\ search_results[1] # search_results[NumTemplates]

\* C19: there is one jurisdiction check per fetched document, called with
\* that document and with location.name and location.state, and for every
\* order in which the checks complete the list that leaves the filter holds,
\* once each, exactly the fetched documents whose own check answered True
C19_SurvivorsAreTheDocsCheckedTrue ==
    /\ pc = "validating" =>
          /\ Len(checks) = Len(docs)
          /\ Range(docs) = Fetched /\ Len(docs) = Cardinality(Fetched)
          /\ \A i \in DOMAIN checks :
                /\ checks[i].doc = docs[i].url
                /\ checks[i].county = location.name
                /\ checks[i].st = location.state
          /\ \A i, j \in DOMAIN answers.check_done :
                answers.check_done[i] = answers.check_done[j] => i = j
    /\ pc = "validated" =>
          /\ DOMAIN answers.check = {d.url : d \in Fetched}
          /\ Len(answers.check_done) = Cardinality(Fetched)
          /\ Range(docs) = {d \in Fetched : answers.check[d.url]}
          /\ Len(docs) = Cardinality(Range(docs))

\* the check of the second document completed first; one check answered
\* True and another one False
C19_Witness ==
    /\ pc = "validated"
    /\ Len(answers.check_done) >= 2
    /\ answers.check_done[1] = 2
    /\ docs # <<>>
    /\ \E u \in DOMAIN answers.check : ~answers.check[u]

\* the URLs of the documents for which check_for_ordinance_info has returned
ClassifiedUrls == DOMAIN answers.classify \cup answers.classify_failed

\* C20: while _check_docs_for_ords runs at most one call of
\* check_for_ordinance_info is in flight; the call in flight is the one for
\* the document at the position of the loop, and the calls that have
\* completed are those for the documents before it in the list
C20_ClassificationIsSequential ==
    /\ Cardinality(inflight) <= 1
    /\ pc = "classifying" =>
          /\ next_doc \in 1..(Len(docs) + 1)
          /\ inflight # {} => next_doc <= Len(docs) /\ inflight = {docs[next_doc].url}
          /\ ClassifiedUrls = {docs[i].url : i \in 1..(next_doc - 1)}
    /\ pc # "classifying" => inflight = {}

\* the call for the second document is in flight after the call for the
\* first document has returned
C20_Witness ==
    /\ pc = "classifying"
    /\ next_doc = 2
    /\ inflight # {}
    /\ docs[1].url \in DOMAIN answers.classify

\* the URLs of the fetched documents whose jurisdiction check answered True
Survivors == {u \in DOMAIN answers.check : answers.check[u]}

\* the documents of these URLs as classified, those that contain ordinance
\* info, in the order of the URLs
Matches(called) ==
    LET checked == [i \in 1..Len(called) |-> Classified(called[i])]
    IN  Filter(checked,
               [i \in 1..Len(checked) |-> checked[i].metadata["contains_ord_info"]], 1)

\* _check_docs_for_ords has returned
CheckDocsReturned == "_check_docs_for_ords" \in Range(calls) /\ pc # "classifying"

\* C21: when no classifier call fails and _check_docs_for_ords has
\* returned, check_for_ordinance_info has been called exactly once for every
\* document that survived the jurisdiction filter and for no other, also
\* for the documents after a match, and the list returned holds the documents
\* classified as containing ordinance info, in the order of the calls; while
\* the loop runs, ord_docs holds the matches among the calls completed
C21_EverySurvivorClassifiedOnce ==
    /\ (CheckDocsReturned /\ answers.classify_failed = {}) =>
          /\ Range(answers.classify_calls) = Survivors
          /\ Len(answers.classify_calls) = Cardinality(Survivors)
          /\ DOMAIN answers.classify = Survivors
          /\ docs = Matches(answers.classify_calls)
    /\ (pc = "classifying" /\ inflight = {}) =>
          ord_docs = Matches(answers.classify_calls)

\* two documents were classified, the second after the first was found to
\* contain ordinance info, and the second was not kept
C21_Witness ==
    /\ pc = "classified"
    /\ Len(answers.classify_calls) = 2
    /\ answers.classify[answers.classify_calls[1]]["contains_ord_info"]
    /\ ~answers.classify[answers.classify_calls[2]]["contains_ord_info"]
    /\ Len(docs) = 1

\* every search request has been issued, once, and has completed
AllSearchesCompleted ==
    /\ DOMAIN answers.search_calls = 1..NumTemplates
    /\ answers.search_completed = 1..NumTemplates

\* every fetched document has been checked and its check has answered
AllChecksCompleted ==
    /\ DOMAIN answers.check_calls = {d.url : d \in Fetched}
    /\ DOMAIN answers.check = {d.url : d \in Fetched}

\* C22: the stage functions are called in the order of lines 146-164, each
\* at most once; candidate selection and the loader are called only when
\* every search request has completed; a jurisdiction check is started only
\* for a document the fetch has returned; a classification is started only
\* when every jurisdiction check has completed; the count is logged only
\* when the classification of every survivor has completed, it is the number
\* of matches, and _parse_all_ord_docs is called only after it is logged
C22_StagesInOrder ==
    /\ calls = SubSeq(AllCalls, 1, Len(calls))
    /\ "_down_select_urls" \in Range(calls) => AllSearchesCompleted
    /\ "fetch_all" \in Range(calls) => AllSearchesCompleted
    /\ DOMAIN answers.check_calls # {} =>
          /\ "fetch_all" \in Range(calls)
          /\ "_down_select_docs_correct_location" \in Range(calls)
          /\ DOMAIN answers.check_calls \subseteq {d.url : d \in Fetched}
    /\ answers.classify_calls # <<>> =>
          /\ AllChecksCompleted
          /\ "_check_docs_for_ords" \in Range(calls)
    /\ "_check_docs_for_ords" \in Range(calls) => AllChecksCompleted
    /\ logged # <<>> =>
          /\ inflight = {}
          /\ Range(answers.classify_calls) = Survivors
          /\ DOMAIN answers.classify = Survivors
          /\ logged = <<Len(Matches(answers.classify_calls))>>
    /\ pc = "logged" => "_parse_all_ord_docs" \notin Range(calls)
    /\ "_parse_all_ord_docs" \in Range(calls) => logged # <<>>

\* a run through every stage: two documents were fetched, checked and
\* classified, the count logged before the selection is 2, and a document
\* is returned
C22_Witness ==
    /\ pc = "returned"
    /\ calls = AllCalls
    /\ Len(answers.classify_calls) = 2
    /\ logged = <<2>>
    /\ IsDocument(result)

\* no element occurs twice in the sequence
NoRepeat(seq) == \A i, j \in DOMAIN seq : seq[i] = seq[j] => i = j

\* C23: in every state of every run, failing runs included, each request
\* that has been issued has been issued once: one call of
\* search_engine.results per template, all templates once the tasks have
\* started, one call of county_validator.check per fetched document, one
\* call of check_for_ordinance_info per jurisdiction survivor; and the item
\* of a search, a check or a classification that raised has one call
C23_NoCallIsRepeated ==
    /\ \A t \in DOMAIN answers.search_calls : answers.search_calls[t] = 1
    /\ DOMAIN answers.search_calls \subseteq 1..NumTemplates
    /\ (answers.search_completed # {} \/ pc \notin {"start", "find_urls"}) =>
          DOMAIN answers.search_calls = 1..NumTemplates
    /\ \A t \in DOMAIN searchers :
          searchers[t].state = "failed" => answers.search_calls[t] = 1
    /\ \A u \in DOMAIN answers.check_calls : answers.check_calls[u] = 1
    /\ DOMAIN answers.check_calls \subseteq {d.url : d \in Fetched}
    /\ \A i \in DOMAIN checks :
          checks[i].state = "failed" => answers.check_calls[checks[i].doc] = 1
    /\ NoRepeat(answers.classify_calls)
    /\ Range(answers.classify_calls) \subseteq Survivors
    /\ \A u \in answers.classify_failed :
          Cardinality({k \in DOMAIN answers.classify_calls :
                          answers.classify_calls[k] = u}) = 1

\* the run has raised after a jurisdiction check failed, and every check of
\* two has completed since
C23_Witness ==
    /\ pc = "raised"
    /\ CheckFailed
    /\ Len(checks) = 2
    /\ \A i \in DOMAIN checks : checks[i].state \in {"done", "failed"}

\* C24: once check_for_ordinance_info has raised, for the document at
\* position next_doc of the reordered list, the run has raised that
\* exception, passed on unchanged by _check_docs_for_ords and
\* download_county_ordinance; the calls made are those for the documents up
\* to that position, no document after it is or will be classified, the list
\* of matches is assigned to nothing, no count is logged,
\* _parse_all_ord_docs is not called and nothing is returned
C24_ClassifierFailureFailsRun ==
    answers.classify_failed # {} =>
        /\ pc = "raised"
        /\ \E e \in CollaboratorErrors :
              error = Propagated(e, <<"_check_docs_for_ords", "download_county_ordinance">>)
        /\ next_doc \in DOMAIN docs
        /\ answers.classify_failed = {docs[next_doc].url}
        /\ answers.classify_calls = [i \in 1..next_doc |-> docs[i].url]
        /\ DOMAIN answers.classify = {docs[i].url : i \in 1..(next_doc - 1)}
        /\ inflight = {}
        /\ Range(docs) = {loaded[u] : u \in Survivors}
        /\ logged = <<>>
        /\ "_parse_all_ord_docs" \notin Range(calls)
        /\ result = Unset

\* the classification of the second document raised after the first
\* document was found to contain ordinance info
C24_Witness ==
    /\ pc = "raised"
    /\ answers.classify_failed # {}
    /\ next_doc = 2
    /\ ord_docs # <<>>

-----------------------------------------------------------------------------
(* Stability of the two sorts, checked under Spec and SpecParse *)

\* the position of the check task of the document of url: the position of
\* the document in the list fetch_all returned
FetchPosition(url) == CHOOSE i \in DOMAIN checks : checks[i].doc = url

\* the positions of the list whose document has the ranking key of doc
TiedWith(list, doc) ==
    {i \in DOMAIN list : _ord_doc_sorting_key(list[i]) = _ord_doc_sorting_key(doc)}

\* C25: in the list that leaves _down_select_docs_correct_location two
\* documents of equal (format, text length) are in the order in which
\* fetch_all returned them; and a document returned by _parse_all_ord_docs
\* is, of the documents of its list that have its ranking key, the last one
\* of the list, which is the one classified last
C25_SortsAreStable ==
    /\ pc = "validated" =>
          \A i, j \in DOMAIN docs :
              (i < j /\ location_sorting_key(docs[i]) = location_sorting_key(docs[j]))
                  => FetchPosition(docs[i].url) < FetchPosition(docs[j].url)
    /\ (pc = "returned" /\ IsDocument(result)) =>
          /\ result = docs[Max(TiedWith(docs, result))]
          /\ \A k \in DOMAIN answers.classify_calls :
                (/\ answers.classify[answers.classify_calls[k]]["contains_ord_info"]
                 /\ _ord_doc_sorting_key(Classified(answers.classify_calls[k]))
                        = _ord_doc_sorting_key(result))
                    => \E r \in k..Len(answers.classify_calls) :
                          answers.classify_calls[r] = result.url

\* two survivors of equal format and text length leave the filter in fetch
\* order although the check of the second one completed first
C25_Witness ==
    /\ pc = "validated"
    /\ Len(docs) = 2
    /\ location_sorting_key(docs[1]) = location_sorting_key(docs[2])
    /\ FetchPosition(docs[1].url) = 1
    /\ answers.check_done = <<2, 1>>

\* two documents with the same ranking key were classified, and the one
\* classified last is returned
C25_TieAtTheTop ==
    /\ pc = "returned"
    /\ Len(docs) = 2
    /\ _ord_doc_sorting_key(docs[1]) = _ord_doc_sorting_key(docs[2])
    /\ result = docs[2]

-----------------------------------------------------------------------------
(* PDFtoTXT.clean_headers on its own: SpecHeaders *)

Digit(n) == <<"0", "1", "2", "3", "4", "5", "6", "7", "8", "9">>[n + 1]

\* the lines of the pages: a page label, the two separator lines, a page
\* number, body lines
Label(n) == <<"P", "a", "g", "e", " ", Digit(n), ".">>
Rule == <<"-", "-", "-">>
Dots == <<".", ".", ".", ".">>
PageNo(n) == <<"p", "p", ".", Digit(n)>>
Body(n) == <<"b", "o", "d", "y", " ", Digit(n)>>
More(n) == <<bullet, " ", "m", "o", "r", "e", Digit(n)>>

\* pages: with label, separator, one or two body lines, separator and page
\* number; a title page of one line; an empty page; a page of two lines
HeaderFooterPage(n) == join(<<Label(n), Rule, Body(n), Dots, PageNo(n)>>, "\n")
LongPage(n) == join(<<Label(n), Rule, Body(n), More(n), Dots, PageNo(n)>>, "\n")
TitlePage == <<"A", " ", "t", "i", "t", "l", "e", " ", "p", "a", "g", "e">>
EmptyPage == <<>>
ShortPage == join(<<Body(0), More(0)>>, "\n")

PageChoices ==
    {HeaderFooterPage(1), HeaderFooterPage(2), LongPage(3), TitlePage, EmptyPage, ShortPage}

\* the pages of the test of clean_headers: a title page, nine pages with
\* header and footer, an empty page
PAGES_WITH_HEADERS_AND_FOOTERS ==
    <<TitlePage>> \o [n \in 1..9 |-> HeaderFooterPage(n)] \o <<EmptyPage>>

\* a PDFtoTXT object after __init__, lines 47-50, for 1..MaxPages pages and
\* for the pages of the test
InitHeaders ==
    /\ pc = "clean_headers"
    /\ \/ \E n \in 1..MaxPages : pages \in [1..n -> PageChoices]
       \/ pages = PAGES_WITH_HEADERS_AND_FOOTERS
       \/ pages = SubSeq(PAGES_WITH_HEADERS_AND_FOOTERS, 1, 10)
    /\ loaded_pages = pages
    /\ raw_pages = pages
    /\ clean_pages = <<>>
    /\ posted = <<>>
    /\ full = combine_pages(pages)
    /\ num_urls = 0
    /\ searchers = <<>>
    /\ search_results = <<>>
    /\ urls = {}
    /\ docs = <<>>
    /\ checks = <<>>
    /\ ord_docs = <<>>
    /\ next_doc = 0
    /\ inflight = {}
    /\ logged = <<>>
    /\ result = Unset
    /\ error = Unset
    /\ loaded = EmptyDict
    /\ answers = NoAnswers
    /\ calls = <<>>

NextHeaders == CleanHeaders

SpecHeaders == InitHeaders /\ [][NextHeaders]_vars

-----------------------------------------------------------------------------
(* Properties of clean_headers, checked under SpecHeaders *)

Lines(page) == split(page, "\n")

IsLabel(line) == \E n \in 0..9 : line = Label(n)
IsPageNo(line) == \E n \in 0..9 : line = PageNo(n)

\* the page starts with a page label and a separator line and ends with a
\* separator line and a page number, with a body between them
HasHeaderAndFooter(page) ==
    LET lines == Lines(page)
    IN  /\ Len(lines) >= 5
        /\ IsLabel(lines[1]) /\ lines[2] = Rule
        /\ lines[Len(lines) - 1] = Dots /\ IsPageNo(lines[Len(lines)])

\* the page without the four lines of its header and footer
BodyOf(page) == join(SubSeq(Lines(page), 3, Len(Lines(page)) - 2), "\n")

\* header and footer are repeated across the pages: every page has them or
\* is a single line, and more than page_thresh of the pages have them
HeadersAreRepeated ==
    /\ \A ip \in DOMAIN loaded_pages :
          HasHeaderAndFooter(loaded_pages[ip]) \/ Len(Lines(loaded_pages[ip])) = 1
    /\ Cardinality({ip \in DOMAIN loaded_pages : HasHeaderAndFooter(loaded_pages[ip])}) * 10
          > page_thresh * Len(loaded_pages)

\* C17 as stated: when header and footer are repeated across the pages,
\* clean_headers returns without error; of a page with header and footer
\* exactly its body remains, a title page of one line and an empty page are
\* kept as they are, and no header or footer line is a line of the text
\* returned
C17_HeadersAndFootersRemoved ==
    (pc # "clean_headers" /\ HeadersAreRepeated) =>
        /\ pc = "returned"
        /\ error = Unset
        /\ Len(pages) = Len(loaded_pages)
        /\ \A ip \in DOMAIN loaded_pages :
              pages[ip] = IF HasHeaderAndFooter(loaded_pages[ip])
                          THEN BodyOf(loaded_pages[ip]) ELSE loaded_pages[ip]
        /\ result = full
        /\ \A line \in Range(Lines(full)) :
              ~IsLabel(line) /\ line # Rule /\ line # Dots /\ ~IsPageNo(line)

-----------------------------------------------------------------------------
(* PDFtoTXT.clean_txt and PDFtoTXT.validate_clean, lines 112-152 and
   246-282: SpecClean *)

\* the characters str.strip() removes from both ends
Whitespace == {" ", "\n", "\t"}

\* str.replace('\n', '')
replace_newlines(str) == SelectSeq(str, LAMBDA c : c # "\n")

\* str.strip()
strip(str) ==
    LET kept == {i \in DOMAIN str : str[i] \notin Whitespace}
    IN  IF kept = {} THEN <<>>
        ELSE SubSeq(str, CHOOSE i \in kept : \A j \in kept : i <= j,
                         CHOOSE i \in kept : \A j \in kept : i >= j)

\* any(str): a string of one character is true
any(str) == \E i \in DOMAIN str : Len(<<str[i]>>) > 0

\* make_gpt_messages, lines 106-110: the system message and the user
\* message, MODEL_INSTRUCTION formatted with the text of the page
make_gpt_messages(pdf_raw_text) ==
    << [role |-> "system", content |-> <<"MODEL_ROLE">>],
       [role |-> "user", content |-> <<"MODEL_INSTRUCTION">> \o pdf_raw_text] >>

\* what becomes of a request, lines 131-137: requests.post or
\* response.json() raises; the API answers with an error object; the API
\* answers with a choice that holds no message; the API answers with a choice
\* that holds a message
Outcomes == {"raised", "error", "no message", "message"}

\* the dict `response` of line 139 for an outcome and a text of the message
response_json(outcome, text) ==
    IF outcome = "message" THEN ("choices" :> << ("message" :> ("content" :> text)) >>)
    ELSE IF outcome = "no message" THEN ("choices" :> << EmptyDict >>)
    ELSE ("error" :> outcome)

\* lines 139-141
content_of(response) ==
    LET choice == get(response, "choices", << ("message" :> ("content" :> <<>>)) >>)[1]
        message == get(choice, "message", ("content" :> <<>>))
    IN  get(message, "content", <<>>)

\* the texts a message may hold: nothing, white space, text, text with a
\* bullet
CleanTexts == {<<>>, <<" ", "\n">>, Body(1), More(1)}

\* the loop as one in which a failed request leaves no page behind
CleanPage_FailureSkipsPage ==
    /\ pc = "clean_txt"
    /\ Len(posted) < Len(raw_pages)
    /\ LET i == Len(posted) + 1
       IN  \E outcome \in Outcomes : \E text \in CleanTexts :
              /\ outcome # "message" => text = <<>>
              /\ posted' = Append(posted, [page |-> i, outcome |-> outcome,
                                           messages |-> make_gpt_messages(raw_pages[i])])
              /\ clean_pages' = IF outcome = "raised" THEN clean_pages
                                ELSE Append(clean_pages,
                                            content_of(response_json(outcome, text)))
    /\ UNCHANGED <<pc, num_urls, searchers, search_results, urls, docs, checks, ord_docs,
                   next_doc, inflight, logged, result, error, loaded, answers, calls,
                   pages, full, raw_pages, loaded_pages>>

\* one pass of the loop of lines 125-144: the request for the next raw page
\* is posted, and the content of the response, or the empty string, is
\* appended to clean_pages
CleanPage ==
    /\ pc = "clean_txt"
    /\ Len(posted) < Len(raw_pages)
    /\ LET i == Len(posted) + 1
       IN  \E outcome \in Outcomes : \E text \in CleanTexts :
              /\ outcome # "message" => text = <<>>
              /\ posted' = Append(posted, [page |-> i, outcome |-> outcome,
                                           messages |-> make_gpt_messages(raw_pages[i])])
              /\ clean_pages' = Append(clean_pages,
                                       content_of(response_json(outcome, text)))
    /\ UNCHANGED <<pc, num_urls, searchers, search_results, urls, docs, checks, ord_docs,
                   next_doc, inflight, logged, result, error, loaded, answers, calls,
                   pages, full, raw_pages, loaded_pages>>

\* validate_clean raises, line 250; lines 260-282 only log
validate_clean_raises(text) == ~any(strip(replace_newlines(text)))

\* lines 146-152: the loop has ended; self.pages and self.full are assigned,
\* then validate_clean raises RuntimeError or clean_pages is returned
FinishClean ==
    /\ pc = "clean_txt"
    /\ Len(posted) = Len(raw_pages)
    /\ pages' = clean_pages
    /\ full' = combine_pages(clean_pages)
    /\ IF validate_clean_raises(combine_pages(clean_pages))
       THEN /\ Raise(Propagated(Exception("RuntimeError"), <<"validate_clean", "clean_txt">>))
            /\ UNCHANGED result
       ELSE /\ pc' = "returned"
            /\ result' = clean_pages
            /\ UNCHANGED error
    /\ UNCHANGED <<num_urls, searchers, search_results, urls, docs, checks, ord_docs,
                   next_doc, inflight, logged, loaded, answers, calls,
                   raw_pages, clean_pages, posted, loaded_pages>>

\* the pages load_pdf may return: pages that are empty or white space are
\* skipped, line 80
RawPageChoices == {Body(2), LongPage(3)}

\* a PDFtoTXT object after __init__, lines 47-50, of 0..MaxPages pages, when
\* clean_txt is called
InitClean ==
    /\ pc = "clean_txt"
    /\ \E n \in 0..MaxPages : raw_pages \in [1..n -> RawPageChoices]
    /\ pages = raw_pages
    /\ loaded_pages = raw_pages
    /\ full = combine_pages(raw_pages)
    /\ clean_pages = <<>>
    /\ posted = <<>>
    /\ num_urls = 0
    /\ searchers = <<>>
    /\ search_results = <<>>
    /\ urls = {}
    /\ docs = <<>>
    /\ checks = <<>>
    /\ ord_docs = <<>>
    /\ next_doc = 0
    /\ inflight = {}
    /\ logged = <<>>
    /\ result = Unset
    /\ error = Unset
    /\ loaded = EmptyDict
    /\ answers = NoAnswers
    /\ calls = <<>>

NextClean == CleanPage \/ FinishClean

SpecClean == InitClean /\ [][NextClean]_vars

-----------------------------------------------------------------------------
(* Properties of clean_txt, checked under SpecClean *)

\* the text holds no character that is not white space
IsBlank(text) == \A i \in DOMAIN text : text[i] \in Whitespace

\* C26: the requests posted are, in page order, one per raw page, each with
\* the text of its page; clean_pages holds one entry per request posted,
\* the empty string for a request that failed, and the loop goes on after a
\* failed request, so that when clean_txt has ended, by returning or by
\* raising, there are as many clean pages as raw pages; clean_txt raises
\* exactly when the combined clean text holds no character that is not white
\* space, the exception is a RuntimeError, and self.pages and self.full are by
\* then the clean pages and their combined text, no longer the raw pages
C26_OneRequestPerPageStateOverwritten ==
    /\ Len(posted) <= Len(raw_pages)
    /\ \A i \in DOMAIN posted :
          /\ posted[i].page = i
          /\ posted[i].messages = make_gpt_messages(raw_pages[i])
    /\ Len(clean_pages) = Len(posted)
    /\ \A i \in DOMAIN posted :
          posted[i].outcome \in {"raised", "error"} => clean_pages[i] = <<>>
    /\ raw_pages = loaded_pages
    /\ pc = "clean_txt" => pages = raw_pages /\ full = combine_pages(raw_pages)
    /\ pc \in {"returned", "raised"} =>
          /\ Len(clean_pages) = Len(raw_pages)
          /\ Len(posted) = Len(raw_pages)
          /\ pages = clean_pages
          /\ full = combine_pages(clean_pages)
          /\ (pc = "raised") = IsBlank(combine_pages(clean_pages))
    /\ pc = "returned" => result = clean_pages /\ error = Unset
    /\ pc = "raised" =>
          /\ error = Propagated(Exception("RuntimeError"), <<"validate_clean", "clean_txt">>)
          /\ result = Unset
          /\ IsBlank(full)
          /\ Len(raw_pages) > 0 => pages # raw_pages /\ full # combine_pages(raw_pages)

\* the request for the first of three pages failed, the other two were
\* posted all the same, and no response held any text: clean_txt raised with
\* self.pages overwritten by three blank pages
C26_Witness ==
    /\ pc = "raised"
    /\ Len(raw_pages) = 3
    /\ posted[1].outcome = "raised"
    /\ Len(posted) = 3
    /\ Len(pages) = 3
    /\ pages # raw_pages

====
